---- MODULE Spec2Model ----
(***************************************************************************)
(* Node reservation and deployment lifecycle of tripleo_common             *)
(* (actions/baremetal_deploy.py): the Mistral actions that check for       *)
(* existing instances, reserve nodes, deploy, wait and undeploy, run       *)
(* against a provisioning backend (metalsmith) that owns the node pool.    *)
(*                                                                         *)
(* Each action's run() is one step of the model.  The backend's answers    *)
(* (which node it hands out, whether a call raises) are chosen             *)
(* nondeterministically among the answers its state allows.  Every run     *)
(* records the backend calls it issued, in order, and what it returned.    *)
(*                                                                         *)
(* Further parts: reserve calls that run side by side, step by step; the   *)
(* image builder (image/builder/buildah.py), its retried push and the      *)
(* threads of build_all; and the polling loop of the heat deployment       *)
(* action (actions/deployment.py).                                         *)
(***************************************************************************)
EXTENDS Integers, Sequences, FiniteSets, TLC

\* ---------------------------------------------------------------- bounds
NumNodes == 2
MaxBatch == 3
MaxCount == 2
MaxInstances == 2

\* ------------------------------------------------------------ vocabulary
Nodes == 1..NumNodes
\* A hostname or a node name is a string, written as the sequence of its
\* pieces so that strings can be concatenated and compared; the empty
\* sequence stands for a missing (or empty) one.
Hostnames == {<<"a">>, <<"b">>}
NoHostname == <<>>
NoName == <<>>
NoExc == [type |-> "-", msg |-> <<>>]
NoNode == 0

\* The name the backend knows a node by.  Node 1 is called "a", which is also
\* a hostname callers ask for; the other nodes are unnamed.
NodeName(n) == IF n = 1 THEN <<"a">> ELSE NoName

VARIABLES
    nodes,      \* backend: node -> [state, hostname]
    op,         \* the action whose run() has returned last, "idle" when none
    args,       \* the arguments that action was constructed with
    calls,      \* the backend calls that run() issued, in order
    result,     \* what run() returned (or the exception that escaped it)
    running,    \* the reserve calls that run side by side: caller -> progress
    build,      \* the image build in progress: its tree and where each part is
    deployment  \* the heat deployment in progress: run() and its polling loop

vars == <<nodes, op, args, calls, result, running, build, deployment>>

\* ------------------------------------------------------- result values
\* An exception: its type and its message.
Exc(t, m) == [type |-> t, msg |-> m]
\* "%s: %s" % (type(exc).__name__, exc)
FormatExc(exc) == <<exc.type>> \o exc.msg
\* six.text_type(exc)
TextOf(exc) == exc.msg

NoResult == [kind |-> "none", error |-> <<>>, value |-> <<>>]
\* a plain return value
Ok(v) == [kind |-> "ok", error |-> <<>>, value |-> v]
\* actions.Result(error=...): the text of the error
Err(e) == [kind |-> "error", error |-> e, value |-> <<>>]
\* an exception that propagated out of run()
Raised(e) == [kind |-> "raised", error |-> FormatExc(e), value |-> <<>>]


\* ------------------------------------------------------------- backend
\* The exceptions the backend raises.
ReservationFailed == Exc("ReservationFailed", <<"reserve">>)
ProvisioningFailed == Exc("ProvisioningFailed", <<"provision">>)
ReleaseFailed == Exc("ReleaseFailed", <<"unprovision">>)
DeploymentTimeout == Exc("DeploymentTimeout", <<"wait">>)
ResourceNotFound == Exc("ResourceNotFound", <<"show">>)
\* metalsmith.exceptions.Error, the base class of metalsmith's failures and
\* its own way to say "no such instance"
MetalsmithError == Exc("Error", <<"show">>)
ConnectionError == Exc("ConnectionError", <<"show">>)
SubnetError == Exc("SDKException", <<"subnet">>)
\* self.instance['hostname'] on an instance that has none
KeyErrorHostname == Exc("KeyError", <<"hostname">>)

FreeNode == [state |-> "available", hostname |-> NoHostname]
ReservedNode == [state |-> "reserved", hostname |-> NoHostname]

\* provisioner.reserve_node: hands out one available node, among the
\* candidates when some are given, or raises.
ReserveNode(ns, candidates) ==
    LET eligible == {n \in Nodes : /\ ns[n].state = "available"
                                   /\ (candidates # {} => NodeName(n) \in candidates)}
    IN  {[ok |-> TRUE, node |-> n, nodes |-> [ns EXCEPT ![n] = ReservedNode],
          exc |-> NoExc] : n \in eligible}
        \cup {[ok |-> FALSE, node |-> NoNode, nodes |-> ns,
               exc |-> ReservationFailed]}

\* provisioner.unprovision_node: returns the node to the pool, or raises and
\* leaves it as it was.
UnprovisionNode(ns, n) ==
    {[ok |-> TRUE, nodes |-> [ns EXCEPT ![n] = FreeNode], exc |-> NoExc],
     [ok |-> FALSE, nodes |-> ns, exc |-> ReleaseFailed]}

\* What the backend tells about the instance on node n.
InstanceOf(ns, n) == [uuid |-> n, hostname |-> ns[n].hostname, node |-> n]

Deployed(ns, n) == ns[n].state \in {"deploying", "active"}

\* provisioner.show_instance: resolves an identifier to the instance of a
\* deployed node, matching the instance's hostname or the node's name; raises
\* not-found (the SDK's or metalsmith's exception) when nothing matches; may
\* raise another error at any time, a connection failure or a failure of
\* metalsmith's own (its exceptions all derive from metalsmith.exceptions.Error,
\* the class it also raises for a lookup that finds nothing).
ShowInstance(ns, ident) ==
    LET matches == {n \in Nodes : /\ Deployed(ns, n)
                                  /\ (ns[n].hostname = ident \/ NodeName(n) = ident)}
    IN  {[ok |-> TRUE, instance |-> InstanceOf(ns, n), exc |-> NoExc] : n \in matches}
        \cup (IF matches = {}
              THEN {[ok |-> FALSE, instance |-> <<>>, exc |-> e]
                    : e \in {ResourceNotFound, MetalsmithError}}
              ELSE {})
        \cup {[ok |-> FALSE, instance |-> <<>>, exc |-> e]
              : e \in {ConnectionError, MetalsmithError}}

\* provisioner.provision_node: starts the deployment on a node that is
\* reserved (or still available), or raises and leaves the node as it was.
ProvisionNode(ns, n, hostname) ==
    (IF ns[n].state \in {"available", "reserved"}
     THEN LET after == [ns EXCEPT ![n] = [state |-> "deploying", hostname |-> hostname]]
          IN  {[ok |-> TRUE, nodes |-> after, instance |-> InstanceOf(after, n),
                exc |-> NoExc]}
     ELSE {})
    \cup {[ok |-> FALSE, nodes |-> ns, instance |-> <<>>,
           exc |-> ProvisioningFailed]}

\* provisioner.wait_for_provisioning: returns once the backend reports the
\* instance active; raises on failure or timeout, the node left as it is.
WaitForProvisioning(ns, n) ==
    (IF Deployed(ns, n)
     THEN LET after == [ns EXCEPT ![n].state = "active"]
          IN  {[ok |-> TRUE, nodes |-> after, instance |-> InstanceOf(after, n),
                exc |-> NoExc]}
     ELSE {})
    \cup {[ok |-> FALSE, nodes |-> ns, instance |-> <<>>,
           exc |-> DeploymentTimeout]}

\* connection.network.get_subnet for the ports of an instance: answers or raises.
GetSubnet == {[ok |-> TRUE, exc |-> NoExc],
              [ok |-> FALSE, exc |-> SubnetError]}

\* ---------------------------------------------------------- validation
\* sources.detect on the image of an instance: raises on a malformed image.
get_source(inst) ==
    IF inst.image = "ok" THEN [ok |-> TRUE, exc |-> NoExc]
    ELSE [ok |-> FALSE, exc |-> Exc("ValueError", <<"image">>)]

RECURSIVE validate_loop(_, _, _, _)
validate_loop(instances, i, hostnames, names) ==
    IF i > Len(instances) THEN NoExc
    ELSE LET inst == instances[i] IN
         IF ~get_source(inst).ok THEN get_source(inst).exc
         ELSE IF inst.hostname # NoHostname /\ inst.hostname \in hostnames
         THEN Exc("ValueError", <<"Hostname is used more than once">> \o inst.hostname)
         ELSE IF inst.name # NoName /\ inst.name \in names
         THEN Exc("ValueError", <<"Node is requested more than once">> \o inst.name)
         ELSE validate_loop(instances, i + 1,
                            IF inst.hostname # NoHostname
                            THEN hostnames \cup {inst.hostname} ELSE hostnames,
                            IF inst.name # NoName
                            THEN names \cup {inst.name} ELSE names)

\* _validate_instances: NoExc, or the exception it raises.
validate_instances(instances) == validate_loop(instances, 1, {}, {})

\* An instance without profile; a dict is the set of its <<key, value>>
\* items, and capabilities are a dict or missing.
NoProfile == "none"
NoCapabilities == [given |-> FALSE, items |-> {}]
Capabilities(items) == [given |-> TRUE, items |-> items]

\* d[key] = value on a dict of items
set_item(d, key, value) == {kv \in d : kv[1] # key} \cup {<<key, value>>}

\* ------------------------------------------------------------- release
\* One backend call: which, on which node or for which hostname, and how it
\* ended: o.ok when it returned, else the type of the exception it raised.
Call(c, n, h, o) ==
    [call |-> c, node |-> n, host |-> h, ok |-> o.ok, exc |-> o.exc.type,
     capabilities |-> NoCapabilities]

RECURSIVE release_nodes_break(_, _, _)
\* Mutant: the loop stops at the first release that fails.
release_nodes_break(ns, cs, todo) ==
    IF todo = <<>> THEN {[nodes |-> ns, calls |-> cs, exc |-> NoExc]}
    ELSE UNION { LET cs1 == Append(cs, Call("unprovision_node", Head(todo), NoHostname, o))
                 IN  IF o.ok THEN release_nodes_break(o.nodes, cs1, Tail(todo))
                     ELSE {[nodes |-> o.nodes, calls |-> cs1, exc |-> NoExc]}
                 : o \in UnprovisionNode(ns, Head(todo)) }

RECURSIVE release_nodes_raise(_, _, _)
\* Mutant: no try/except around the release, its exception propagates.
release_nodes_raise(ns, cs, todo) ==
    IF todo = <<>> THEN {[nodes |-> ns, calls |-> cs, exc |-> NoExc]}
    ELSE UNION { LET cs1 == Append(cs, Call("unprovision_node", Head(todo), NoHostname, o))
                 IN  IF o.ok THEN release_nodes_raise(o.nodes, cs1, Tail(todo))
                     ELSE {[nodes |-> o.nodes, calls |-> cs1, exc |-> o.exc]}
                 : o \in UnprovisionNode(ns, Head(todo)) }

RECURSIVE release_nodes(_, _, _)
\* _release_nodes: every way the loop over `todo` can end, as
\* [nodes, calls, exc]; a failing release is logged and the loop moves on.
release_nodes(ns, cs, todo) ==
    IF todo = <<>> THEN {[nodes |-> ns, calls |-> cs, exc |-> NoExc]}
    ELSE UNION { release_nodes(o.nodes,
                               Append(cs, Call("unprovision_node", Head(todo), NoHostname, o)),
                               Tail(todo))
                 : o \in UnprovisionNode(ns, Head(todo)) }

\* ------------------------------------------------------------- reserve
\* The instances a caller hands to reserve: plain, pinned to node "a" by
\* name, carrying a hostname, or with an image that does not resolve.
Plain ==
    [hostname |-> NoHostname, name |-> NoName, image |-> "ok",
     profile |-> NoProfile, capabilities |-> NoCapabilities]
ReserveSpecs ==
    {Plain,
     [Plain EXCEPT !.name = <<"a">>],
     [Plain EXCEPT !.hostname = <<"a">>],
     [Plain EXCEPT !.image = "bad"]}

\* The instances that ask for a kind of node: by profile, by a profile among
\* the capabilities, by both, or by a profile next to other capabilities.
ProfileSpecs ==
    {Plain,
     [Plain EXCEPT !.profile = "compute"],
     [Plain EXCEPT !.capabilities = Capabilities({<<"profile", "control">>})],
     [Plain EXCEPT !.profile = "compute",
                   !.capabilities = Capabilities({<<"profile", "control">>})],
     [Plain EXCEPT !.profile = "compute",
                   !.capabilities = Capabilities({<<"boot_mode", "uefi">>})]}

Batches(S) == UNION {[1..k -> S] : k \in 0..MaxBatch}

\* Mutant: the rollback misses the first node reserved.
reserve_failed_skip(ns, cs, reserved, exc) ==
    {[nodes |-> r.nodes, calls |-> r.calls,
      result |-> IF r.exc = NoExc THEN Err(FormatExc(exc)) ELSE Raised(r.exc)]
     : r \in release_nodes(ns, cs, IF reserved = <<>> THEN <<>> ELSE Tail(reserved))}

\* the except clause of ReserveNodesAction.run
reserve_failed(ns, cs, reserved, exc) ==
    {[nodes |-> r.nodes, calls |-> r.calls,
      result |-> IF r.exc = NoExc THEN Err(FormatExc(exc)) ELSE Raised(r.exc)]
     : r \in release_nodes(ns, cs, reserved)}

\* the profile of an instance written into its capabilities (the caller's
\* dict is the one that is changed)
fold_profile(instance) ==
    IF instance.profile # NoProfile
    THEN [instance EXCEPT !.capabilities =
             Capabilities(set_item(@.items, "profile", instance.profile))]
    ELSE instance

\* provisioner.reserve_node(..., capabilities=instance.get('capabilities'), ...)
ReserveCall(n, o, instance) ==
    [Call("reserve_node", n, NoHostname, o)
        EXCEPT !.capabilities = instance.capabilities]

\* The list the caller passed, as run() leaves it, next to what run() did.
leaving(outs, instances) ==
    {[nodes |-> r.nodes, calls |-> r.calls, result |-> r.result,
      instances |-> instances] : r \in outs}

RECURSIVE reserve_loop(_, _, _, _, _, _)
\* the for loop of ReserveNodesAction.run from instance i on; the instances
\* are the caller's objects, and the loop writes into them
reserve_loop(instances, i, ns, cs, reserved, res) ==
    IF i > Len(instances)
    THEN {[nodes |-> ns, calls |-> cs, result |-> Ok([reservations |-> res]),
           instances |-> instances]}
    ELSE LET candidates == IF instances[i].name # NoName
                           THEN {instances[i].name} ELSE {}
             instance == fold_profile(instances[i])
             written == [instances EXCEPT ![i] = instance]
         IN  UNION {
               IF o.ok
               THEN reserve_loop(written, i + 1, o.nodes,
                                 Append(cs, ReserveCall(o.node, o, instance)),
                                 Append(reserved, o.node),
                                 Append(res, [node |-> o.node, instance |-> instance]))
               ELSE leaving(reserve_failed(o.nodes,
                                           Append(cs, ReserveCall(NoNode, o, instance)),
                                           reserved, o.exc),
                            written)
               : o \in ReserveNode(ns, candidates) }

\* ReserveNodesAction.run
reserve_run(ns, instances) ==
    IF validate_instances(instances) # NoExc
    THEN {[nodes |-> ns, calls |-> <<>>,
           result |-> Err(TextOf(validate_instances(instances))),
           instances |-> instances]}
    ELSE reserve_loop(instances, 1, ns, <<>>, <<>>, <<>>)

\* ReserveNodesAction(instances).run(); the caller keeps the list it passed
\* (args.instances is the list as passed, args.left the list after run())
Reserve(instances) ==
    \E out \in reserve_run(nodes, instances) :
        /\ nodes' = out.nodes
        /\ op' = "reserve"
        /\ args' = [instances |-> instances, left |-> out.instances]
        /\ calls' = out.calls
        /\ result' = out.result
        /\ UNCHANGED <<running, build, deployment>>

ReserveNodesAction ==
    /\ op = "idle"
    /\ \E instances \in Batches(ReserveSpecs) : Reserve(instances)

\* reserve for instances that ask for a kind of node
ReserveProfiledNodes ==
    /\ op = "idle"
    /\ \E instances \in Batches(ProfileSpecs) : Reserve(instances)

\* --------------------------------------------------- enriched instance
\* _instance_to_dict: the instance as a dict with its port map; the subnet of
\* each fixed IP of the instance's port is fetched from the backend, and a
\* failing fetch propagates.
instance_to_dict(cs, instance) ==
    {[ok |-> s.ok, exc |-> s.exc,
      calls |-> Append(cs, Call("get_subnet", instance.node, NoHostname, s)),
      value |-> [uuid |-> instance.uuid, hostname |-> instance.hostname]]
     : s \in GetSubnet}

\* ------------------------------------------------------ check existing
\* The instances a caller hands to checkExisting.
CheckSpecs ==
    {[hostname |-> h, name |-> NoName, image |-> "ok"] : h \in Hostnames \cup {NoHostname}}
    \cup {[hostname |-> <<"a">>, name |-> NoName, image |-> "bad"]}

\* except (sdk_exc.ResourceNotFound, metalsmith.exceptions.Error)
NotFoundErrors == {"ResourceNotFound", "Error"}

\* Mutant: no backend error counts as not-found.
is_not_found_never(exc) == FALSE

\* whether show_instance's exception is caught as "does not exist"
is_not_found(exc) == exc.type \in NotFoundErrors

\* Mutant: the comparison of the hostnames is inverted.
hostname_conflict_inverted(instance, request) ==
    /\ instance.hostname # NoHostname
    /\ instance.hostname = request.hostname

\* the safeguard on the resolved instance: it has a hostname and it is not
\* the requested one
hostname_conflict(instance, request) ==
    /\ instance.hostname # NoHostname
    /\ instance.hostname # request.hostname

RECURSIVE check_loop(_, _, _, _, _, _)
\* the for loop of CheckExistingInstancesAction.run from request i on
check_loop(ns, instances, i, cs, not_found, found) ==
    IF i > Len(instances)
    THEN {[calls |-> cs,
           result |-> Ok([not_found |-> not_found, instances |-> found])]}
    ELSE LET request == instances[i] IN
         IF request.hostname = NoHostname
         THEN check_loop(ns, instances, i + 1, cs, not_found, found)
         ELSE UNION {
           LET cs1 == Append(cs, Call("show_instance", IF o.ok THEN o.instance.node ELSE NoNode,
                                       request.hostname, o))
           IN  IF ~o.ok
               THEN IF is_not_found(o.exc)
                    THEN check_loop(ns, instances, i + 1, cs1,
                                    Append(not_found, request), found)
                    ELSE {[calls |-> cs1,
                           result |-> Err(<<"Failed to request instance information">>
                                          \o request.hostname \o FormatExc(o.exc))]}
               ELSE IF hostname_conflict(o.instance, request)
               THEN {[calls |-> cs1,
                      result |-> Err(<<"Requested hostname was not found">>
                                     \o request.hostname)]}
               ELSE UNION {
                      IF d.ok
                      THEN check_loop(ns, instances, i + 1, d.calls, not_found,
                                      Append(found, d.value))
                      ELSE {[calls |-> d.calls, result |-> Raised(d.exc)]}
                      : d \in instance_to_dict(cs1, o.instance) }
           : o \in ShowInstance(ns, request.hostname) }

\* CheckExistingInstancesAction.run
check_run(ns, instances) ==
    IF validate_instances(instances) # NoExc
    THEN {[calls |-> <<>>, result |-> Err(TextOf(validate_instances(instances)))]}
    ELSE check_loop(ns, instances, 1, <<>>, <<>>, <<>>)

CheckExistingInstancesAction ==
    /\ op = "idle"
    /\ \E instances \in Batches(CheckSpecs) :
         \E out \in check_run(nodes, instances) :
            /\ op' = "check"
            /\ args' = [instances |-> instances]
            /\ calls' = out.calls
            /\ result' = out.result
            /\ UNCHANGED <<running, build, deployment>>
    /\ UNCHANGED nodes

\* -------------------------------------------------------------- deploy
\* The instance a caller hands to deploy.
DeploySpecs ==
    {[hostname |-> h, name |-> NoName, image |-> "ok"] : h \in Hostnames \cup {NoHostname}}
    \cup {[hostname |-> <<"a">>, name |-> NoName, image |-> "bad"]}

\* Mutant: the cleanup releases the node twice.
deploy_failed_twice(ns, cs, node, exc) ==
    {[nodes |-> r.nodes, calls |-> r.calls,
      result |-> IF r.exc = NoExc THEN Err(FormatExc(exc)) ELSE Raised(r.exc)]
     : r \in release_nodes(ns, cs, <<node, node>>)}

\* the except clause of DeployNodeAction.run
deploy_failed(ns, cs, node, exc) ==
    {[nodes |-> r.nodes, calls |-> r.calls,
      result |-> IF r.exc = NoExc THEN Err(FormatExc(exc)) ELSE Raised(r.exc)]
     : r \in release_nodes(ns, cs, <<node>>)}

\* Mutant: deploy waits until the backend reports the instance active.
deploy_try_blocking(ns, instance, node) ==
    IF ~get_source(instance).ok
    THEN deploy_failed(ns, <<>>, node, get_source(instance).exc)
    ELSE IF instance.hostname = NoHostname
    THEN deploy_failed(ns, <<>>, node, KeyErrorHostname)
    ELSE UNION {
           LET cs == <<Call("provision_node", node, instance.hostname, o)>>
           IN  IF ~o.ok
               THEN deploy_failed(o.nodes, cs, node, o.exc)
               ELSE UNION {
                      LET cs2 == Append(cs, Call("wait_for_provisioning", node,
                                                 NoHostname, w))
                      IN  IF ~w.ok
                          THEN deploy_failed(w.nodes, cs2, node, w.exc)
                          ELSE {[nodes |-> w.nodes, calls |-> d.calls,
                                 result |-> IF d.ok THEN Ok(d.value) ELSE Raised(d.exc)]
                                : d \in instance_to_dict(cs2, w.instance)}
                      : w \in WaitForProvisioning(o.nodes, node) }
           : o \in ProvisionNode(ns, node, instance.hostname) }

\* DeployNodeAction.run after the validation: the try block and what follows
deploy_try(ns, instance, node) ==
    IF ~get_source(instance).ok
    THEN deploy_failed(ns, <<>>, node, get_source(instance).exc)
    ELSE IF instance.hostname = NoHostname
    THEN deploy_failed(ns, <<>>, node, KeyErrorHostname)
    ELSE UNION {
           LET cs == <<Call("provision_node", node, instance.hostname, o)>>
           IN  IF ~o.ok
               THEN deploy_failed(o.nodes, cs, node, o.exc)
               ELSE {[nodes |-> o.nodes, calls |-> d.calls,
                      result |-> IF d.ok THEN Ok(d.value) ELSE Raised(d.exc)]
                     : d \in instance_to_dict(cs, o.instance)}
           : o \in ProvisionNode(ns, node, instance.hostname) }

\* Mutant: the instance is not validated before the node is touched.
deploy_run_unvalidated(ns, instance, node) == deploy_try(ns, instance, node)

\* DeployNodeAction.run
deploy_run(ns, instance, node) ==
    IF validate_instances(<<instance>>) # NoExc
    THEN {[nodes |-> ns, calls |-> <<>>,
           result |-> Err(TextOf(validate_instances(<<instance>>)))]}
    ELSE deploy_try(ns, instance, node)

DeployNodeAction ==
    /\ op = "idle"
    /\ \E instance \in DeploySpecs, node \in Nodes :
         \E out \in deploy_run(nodes, instance, node) :
            /\ nodes' = out.nodes
            /\ op' = "deploy"
            /\ args' = [instance |-> instance, node |-> node]
            /\ calls' = out.calls
            /\ result' = out.result
            /\ UNCHANGED <<running, build, deployment>>

\* ---------------------------------------------------------------- wait
\* The instance record a caller hands to awaitDeployment: what deploy
\* returned (or any dict of the caller's making).
DeployedRefs ==
    [hostname : {<<"a">>}, name : {NoName}, uuid : Nodes, image : {"ok", "bad"}]
    \cup [hostname : {NoHostname}, name : {NoName}, uuid : Nodes, image : {"ok"}]

\* Mutant: a failed wait tears the node down, as deploy does.
wait_run_releasing(ns, instance) ==
    IF instance.hostname = NoHostname
    THEN {[nodes |-> ns, calls |-> <<>>, result |-> Raised(KeyErrorHostname)]}
    ELSE UNION {
           LET cs == <<Call("wait_for_provisioning", instance.uuid, NoHostname, o)>>
           IN  IF ~o.ok
               THEN {[nodes |-> r.nodes, calls |-> r.calls,
                      result |-> Err(FormatExc(o.exc))]
                     : r \in release_nodes(o.nodes, cs, <<instance.uuid>>)}
               ELSE {[nodes |-> o.nodes, calls |-> d.calls,
                      result |-> IF d.ok THEN Ok(d.value) ELSE Raised(d.exc)]
                     : d \in instance_to_dict(cs, o.instance)}
           : o \in WaitForProvisioning(ns, instance.uuid) }

\* WaitForDeploymentAction.run
wait_run(ns, instance) ==
    IF instance.hostname = NoHostname
    THEN {[nodes |-> ns, calls |-> <<>>,
           result |-> Raised(KeyErrorHostname)]}
    ELSE UNION {
           LET cs == <<Call("wait_for_provisioning", instance.uuid, NoHostname, o)>>
           IN  IF ~o.ok
               THEN {[nodes |-> o.nodes, calls |-> cs, result |-> Err(FormatExc(o.exc))]}
               ELSE {[nodes |-> o.nodes, calls |-> d.calls,
                      result |-> IF d.ok THEN Ok(d.value) ELSE Raised(d.exc)]
                     : d \in instance_to_dict(cs, o.instance)}
           : o \in WaitForProvisioning(ns, instance.uuid) }

WaitForDeploymentAction ==
    /\ op = "idle"
    /\ \E instance \in DeployedRefs :
         \E out \in wait_run(nodes, instance) :
            /\ nodes' = out.nodes
            /\ op' = "wait"
            /\ args' = [instance |-> instance]
            /\ calls' = out.calls
            /\ result' = out.result
            /\ UNCHANGED <<running, build, deployment>>

\* ------------------------------------------------------------ undeploy
\* Mutant: a failed lookup is reported as an error.
undeploy_run_strict(ns, instance) ==
    UNION {
      LET cs == <<Call("show_instance", IF o.ok THEN o.instance.node ELSE NoNode,
                      instance, o)>>
      IN  IF ~o.ok
          THEN {[nodes |-> ns, calls |-> cs, result |-> Err(FormatExc(o.exc))]}
          ELSE {[nodes |-> u.nodes,
                 calls |-> Append(cs, Call("unprovision_node", o.instance.node,
                                           NoHostname, u)),
                 result |-> IF u.ok THEN Ok(<<>>) ELSE Raised(u.exc)]
                : u \in UnprovisionNode(ns, o.instance.node)}
      : o \in ShowInstance(ns, instance) }

\* UndeployInstanceAction.run; None is returned as the empty value.
undeploy_run(ns, instance) ==
    UNION {
      LET cs == <<Call("show_instance", IF o.ok THEN o.instance.node ELSE NoNode,
                      instance, o)>>
      IN  IF ~o.ok
          THEN {[nodes |-> ns, calls |-> cs, result |-> Ok(<<>>)]}
          ELSE {[nodes |-> u.nodes,
                 calls |-> Append(cs, Call("unprovision_node", o.instance.node,
                                           NoHostname, u)),
                 result |-> IF u.ok THEN Ok(<<>>) ELSE Raised(u.exc)]
                : u \in UnprovisionNode(ns, o.instance.node)}
      : o \in ShowInstance(ns, instance) }

UndeployInstanceAction ==
    /\ op = "idle"
    /\ \E instance \in Hostnames :
         \E out \in undeploy_run(nodes, instance) :
            /\ nodes' = out.nodes
            /\ op' = "undeploy"
            /\ args' = [instance |-> instance]
            /\ calls' = out.calls
            /\ result' = out.result
            /\ UNCHANGED <<running, build, deployment>>

\* ---------------------------------------------------------- environment
\* Another party deploys an available node outside this program: the node
\* then carries an instance that has no hostname of ours.
ExternalDeploy ==
    /\ op = "idle"
    /\ \E n \in Nodes :
         /\ nodes[n].state = "available"
         /\ nodes' = [nodes EXCEPT ![n] = [state |-> "active", hostname |-> NoHostname]]
    /\ UNCHANGED <<op, args, calls, result, running, build, deployment>>

\* --------------------------------------------------------- expand roles
\* The decimal digits, and str(index).
Digits == <<"0", "1", "2", "3", "4", "5", "6", "7", "8", "9">>

RECURSIVE str(_)
str(i) ==
    IF i < Len(Digits) THEN <<Digits[i + 1]>>
    ELSE str(i \div Len(Digits)) \o <<Digits[(i % Len(Digits)) + 1]>>

RECURSIVE replace(_, _, _)
\* s.replace(old, new) on a string of pieces: each piece old gives way to new
replace(s, old, new) ==
    IF s = <<>> THEN <<>>
    ELSE (IF Head(s) = old THEN new ELSE <<Head(s)>>) \o replace(Tail(s), old, new)

\* The names of the roles, and str.lower on them.
RoleNames == {"Compute", "Controller"}
lower(role_name) ==
    CASE role_name = "Compute" -> "compute"
      [] role_name = "Controller" -> "controller"
      [] OTHER -> role_name

\* A role without hostname_format (or with an empty one).
NoFormat == <<>>

\* Mutant: the role name is used as it is written.
hostname_format_verbatim(format, role_name) ==
    IF format = NoFormat
    THEN <<"%stackname%", "-", role_name, "-", "%index%">>
    ELSE format

\* _hostname_format
hostname_format(format, role_name) ==
    IF format = NoFormat
    THEN <<"%stackname%", "-",
           IF role_name = "Compute" THEN "novacompute" ELSE lower(role_name),
           "-", "%index%">>
    ELSE format

\* _build_hostname
build_hostname(format, index, stack) ==
    replace(replace(format, "%index%", str(index)), "%stackname%", stack)

\* An instance (or the defaults of a role) that sets no image, and the image
\* ExpandRolesAction is constructed with (default_image), which resolves.
NoImage == "none"
DefaultImage == "ok"
NoDefaults == [hostname |-> NoHostname, name |-> NoName, image |-> NoImage]

\* dict.update: the keys of over replace those of base
update(base, over) ==
    [hostname |-> IF over.hostname # NoHostname THEN over.hostname ELSE base.hostname,
     name |-> IF over.name # NoName THEN over.name ELSE base.name,
     image |-> IF over.image # NoImage THEN over.image ELSE base.image]

\* d[key] = value on a dict
put(d, key, value) ==
    [k \in DOMAIN d \cup {key} |-> IF k = key THEN value ELSE d[k]]

\* Mutant: the name of an instance replaces the hostname it gives.
set_defaults_named(inst) ==
    [inst EXCEPT !.image = IF @ = NoImage THEN DefaultImage ELSE @,
                 !.hostname = IF inst.name # NoName THEN inst.name ELSE @]

\* the first loop of ExpandRolesAction.run on one instance: the default image
\* and, for an instance with a name and no hostname, the name as hostname
set_defaults(inst) ==
    [inst EXCEPT !.image = IF @ = NoImage THEN DefaultImage ELSE @,
                 !.hostname = IF @ = NoHostname /\ inst.name # NoName
                              THEN inst.name ELSE @]

\* the first loop of ExpandRolesAction.run: it rewrites the caller's roles
prepare(roles) ==
    [k \in 1..Len(roles) |->
        [roles[k] EXCEPT !.instances = [j \in 1..Len(@) |-> set_defaults(@[j])]]]

RECURSIVE validate_roles_loop_truthy(_, _)
\* Mutant: count and instances clash only when both are non-empty.
validate_roles_loop_truthy(roles, k) ==
    IF k > Len(roles) THEN NoExc
    ELSE LET item == roles[k] IN
         IF item.has_count /\ item.count > 0 /\ item.instances # <<>>
         THEN Exc("ValueError", <<"Count and instances cannot be provided together">>)
         ELSE IF item.defaults.hostname # NoHostname
         THEN Exc("ValueError", <<item.name, "cannot specify hostname in defaults">>)
         ELSE IF item.defaults.name # NoName
         THEN Exc("ValueError", <<item.name, "cannot specify name in defaults">>)
         ELSE IF item.has_instances /\ validate_instances(item.instances) # NoExc
         THEN validate_instances(item.instances)
         ELSE validate_roles_loop_truthy(roles, k + 1)

RECURSIVE validate_roles_loop(_, _)
\* the for loop of _validate_roles from role k on
validate_roles_loop(roles, k) ==
    IF k > Len(roles) THEN NoExc
    ELSE LET item == roles[k] IN
         IF item.has_count /\ item.has_instances
         THEN Exc("ValueError", <<"Count and instances cannot be provided together">>)
         ELSE IF item.defaults.hostname # NoHostname
         THEN Exc("ValueError", <<item.name, "cannot specify hostname in defaults">>)
         ELSE IF item.defaults.name # NoName
         THEN Exc("ValueError", <<item.name, "cannot specify name in defaults">>)
         ELSE IF item.has_instances /\ validate_instances(item.instances) # NoExc
         THEN validate_instances(item.instances)
         ELSE validate_roles_loop(roles, k + 1)

\* _validate_roles: NoExc, or the exception it raises.
validate_roles(roles) == validate_roles_loop(roles, 1)

\* What the expansion has built so far: the flat instance list and the three
\* kinds of entries of parameter_defaults.
NoExpansion ==
    [instances |-> <<>>, hostname_map |-> <<>>, counts |-> <<>>, formats |-> <<>>]

RECURSIVE expand_instances(_, _, _, _, _)
\* the loop over role['instances'] from position index on
expand_instances(role, format, stack, index, acc) ==
    IF index >= Len(role.instances) THEN acc
    ELSE LET instance == role.instances[index + 1]
             merged == update(update(NoDefaults, role.defaults), instance)
             gen_name == build_hostname(format, index, stack)
             inst == [merged EXCEPT !.hostname =
                          IF @ # NoHostname THEN @
                          ELSE IF merged.name # NoName THEN merged.name
                          ELSE gen_name]
         IN  expand_instances(role, format, stack, index + 1,
                 [acc EXCEPT !.hostname_map = put(@, gen_name, inst.hostname),
                             !.instances = Append(@, inst)])

RECURSIVE expand_count(_, _, _, _, _, _)
\* the loop over range(count) from index on
expand_count(role, format, stack, count, index, acc) ==
    IF index >= count THEN acc
    ELSE LET hostname == build_hostname(format, index, stack)
             merged == update([NoDefaults EXCEPT !.hostname = hostname], role.defaults)
             inst == [merged EXCEPT !.image = IF @ = NoImage THEN DefaultImage ELSE @]
         IN  expand_count(role, format, stack, count, index + 1,
                 [acc EXCEPT !.instances = Append(@, inst),
                             !.hostname_map = put(@, hostname, hostname)])

\* the body of the loop over the roles in ExpandRolesAction.run
expand_role(role, stack, acc) ==
    LET format == hostname_format(role.hostname_format, role.name)
        acc1 == [acc EXCEPT !.formats = put(@, role.name, format)]
    IN  IF role.has_instances
        THEN expand_instances(role, format, stack, 0,
                 [acc1 EXCEPT !.counts = put(@, role.name, Len(role.instances))])
        ELSE LET count == IF role.has_count THEN role.count ELSE 1
                 acc2 == [acc1 EXCEPT !.counts = put(@, role.name, count)]
             IN  IF count = 0 THEN acc2
                 ELSE expand_count(role, format, stack, count, 0, acc2)

RECURSIVE expand_roles(_, _, _, _)
\* the loop over the roles from role k on
expand_roles(roles, k, stack, acc) ==
    IF k > Len(roles) THEN acc
    ELSE expand_roles(roles, k + 1, stack, expand_role(roles[k], stack, acc))

\* Mutant: the expanded list is returned without the second validation.
expand_run_unchecked(roles, stack) ==
    LET prepared == prepare(roles)
        acc == expand_roles(prepared, 1, stack, NoExpansion)
    IN  IF validate_roles(prepared) # NoExc
        THEN Err(TextOf(validate_roles(prepared)))
        ELSE Ok([instances |-> acc.instances,
                 environment |-> [HostnameMap |-> acc.hostname_map,
                                  DeployedServerCount |-> acc.counts,
                                  DeployedServerHostnameFormat |-> acc.formats]])

\* ExpandRolesAction.run
expand_run(roles, stack) ==
    LET prepared == prepare(roles)
        acc == expand_roles(prepared, 1, stack, NoExpansion)
    IN  IF validate_roles(prepared) # NoExc
        THEN Err(TextOf(validate_roles(prepared)))
        ELSE IF validate_instances(acc.instances) # NoExc
        THEN Err(TextOf(validate_instances(acc.instances)))
        ELSE Ok([instances |-> acc.instances,
                 environment |-> [HostnameMap |-> acc.hostname_map,
                                  DeployedServerCount |-> acc.counts,
                                  DeployedServerHostnameFormat |-> acc.formats]])

\* The stack names, the custom hostname formats (one numbers its hosts, one
\* does not) and the instances callers write into a role: with or without a
\* hostname of their own, with or without the name of the node they want.
StackNames == {<<"overcloud">>, <<"lab">>}
HostnameFormats == {NoFormat, <<"srv", "-", "%index%">>, <<"%stackname%", "-", "srv">>}
RoleInstanceSpecs ==
    {[hostname |-> h, name |-> n, image |-> NoImage]
     : h \in {NoHostname, <<"foo">>}, n \in {NoName, <<"bm0">>}}

Role(n, f, hc, c, hi, is, d) ==
    [name |-> n, hostname_format |-> f, has_count |-> hc, count |-> c,
     has_instances |-> hi, instances |-> is, defaults |-> d]

\* Roles that give a count (or nothing, which counts as one), roles that
\* list their instances, and roles the validation has a rule against: count
\* together with instances, a hostname or a name among the defaults.
CountRoles ==
    {Role(n, f, TRUE, c, FALSE, <<>>, d)
     : n \in RoleNames, f \in HostnameFormats, c \in 0..MaxCount,
       d \in {NoDefaults, [NoDefaults EXCEPT !.image = "bad"]}}
    \cup {Role(n, f, FALSE, 0, FALSE, <<>>, NoDefaults)
          : n \in RoleNames, f \in HostnameFormats}
InstanceRoles ==
    {Role(n, f, FALSE, 0, TRUE, is, NoDefaults)
     : n \in RoleNames, f \in HostnameFormats,
       is \in UNION {[1..k -> RoleInstanceSpecs] : k \in 0..MaxInstances}}
OddRoles ==
    {Role("Controller", NoFormat, TRUE, c, TRUE, is, NoDefaults)
     : c \in {0, 1}, is \in {<<>>, <<NoDefaults>>}}
    \cup {Role("Controller", NoFormat, TRUE, 1, FALSE, <<>>, d)
          : d \in {[NoDefaults EXCEPT !.hostname = <<"foo">>],
                   [NoDefaults EXCEPT !.name = <<"bm0">>]}}
    \cup {Role("Controller", NoFormat, FALSE, 0, TRUE, <<NoDefaults>>,
               [NoDefaults EXCEPT !.image = "bad"])}
Roles == CountRoles \cup InstanceRoles \cup OddRoles

\* ExpandRolesAction(roles, stackname).run()
ExpandRoles(roles, stackname) ==
    /\ op' = "expand"
    /\ args' = [roles |-> roles, stackname |-> stackname]
    /\ calls' = <<>>
    /\ result' = expand_run(roles, stackname)
    /\ UNCHANGED <<running, build, deployment>>
    /\ UNCHANGED nodes

\* The roles that stand for at most one instance.
SmallRoles == {r \in Roles : r.count <= 1 /\ Len(r.instances) <= 1}

\* Callers pass no role, one role, or two roles of which one is small.
ExpandRolesAction ==
    /\ op = "idle"
    /\ \E stackname \in StackNames :
          \/ ExpandRoles(<<>>, stackname)
          \/ \E r \in Roles : ExpandRoles(<<r>>, stackname)
          \/ \E r \in Roles, s \in SmallRoles :
                \/ ExpandRoles(<<r, s>>, stackname)
                \/ ExpandRoles(<<s, r>>, stackname)

\* ------------------------------------------------ reserve side by side
\* Workflows that run ReserveNodesAction at the same time, each on a batch of
\* its own.  Every backend call is a step of its own; the backend serves one
\* call at a time.
Callers == {"c1", "c2"}
ConcSpecs == {Plain, [Plain EXCEPT !.name = <<"a">>]}

\* A caller that has not called reserve yet: where its run() stands (pc), its
\* batch, the backend calls it made, the local lists nodes and result of
\* run(), the nodes still to release and the exception being handled, and
\* what run() returned.
NotStarted ==
    [pc |-> "idle", instances |-> <<>>, calls |-> <<>>, reserved |-> <<>>,
     res |-> <<>>, todo |-> <<>>, exc |-> NoExc, result |-> NoResult]

\* Mutant: after a rollback the reservations made so far are returned.
reserve_outcome_partial(res, exc) == Ok([reservations |-> res])

\* what ReserveNodesAction.run returns: the reservations after the loop, the
\* error from the except clause
reserve_outcome(res, exc) ==
    IF exc = NoExc THEN Ok([reservations |-> res]) ELSE Err(FormatExc(exc))

\* Mutant: the rollback releases every node of the pool that is reserved.
rollback_nodes_pool(r) ==
    SelectSeq([n \in 1..NumNodes |-> n], LAMBDA n : nodes[n].state = "reserved")

\* the nodes the except clause of run() hands to _release_nodes: the local
\* list of the nodes this run() has reserved
rollback_nodes(r) == r.reserved

\* run() is entered: the batch is validated
StartReserve ==
    /\ \E c \in Callers :
          /\ running[c].pc = "idle"
          /\ \E instances \in Batches(ConcSpecs) :
                running' = [running EXCEPT ![c] =
                    IF validate_instances(instances) # NoExc
                    THEN [@ EXCEPT !.pc = "done", !.instances = instances,
                                   !.result = Err(TextOf(validate_instances(instances)))]
                    ELSE IF instances = <<>>
                    THEN [@ EXCEPT !.pc = "done",
                                   !.result = reserve_outcome(<<>>, NoExc)]
                    ELSE [@ EXCEPT !.pc = "reserving", !.instances = instances]]
    /\ UNCHANGED <<nodes, op, args, calls, result, build, deployment>>

\* one turn of the for loop of run(): the reserve_node call for the next
\* instance, and what follows it without a further backend call
ReserveStep ==
    /\ \E c \in Callers :
          /\ running[c].pc = "reserving"
          /\ LET r == running[c]
                 i == Len(r.res) + 1
                 last == i = Len(r.instances)
                 candidates == IF r.instances[i].name # NoName
                               THEN {r.instances[i].name} ELSE {}
                 instance == fold_profile(r.instances[i])
             IN  \E o \in ReserveNode(nodes, candidates) :
                    /\ nodes' = o.nodes
                    /\ running' = [running EXCEPT ![c] =
                          IF o.ok
                          THEN LET res == Append(r.res, [node |-> o.node,
                                                         instance |-> instance])
                               IN  [r EXCEPT
                                      !.calls = Append(@, ReserveCall(o.node, o, instance)),
                                      !.reserved = Append(@, o.node),
                                      !.res = res,
                                      !.pc = IF last THEN "done" ELSE "reserving",
                                      !.result = IF last THEN reserve_outcome(res, NoExc)
                                                 ELSE @]
                          ELSE [r EXCEPT
                                  !.calls = Append(@, ReserveCall(NoNode, o, instance)),
                                  !.exc = o.exc,
                                  !.todo = rollback_nodes(r),
                                  !.pc = IF rollback_nodes(r) = <<>>
                                         THEN "done" ELSE "releasing",
                                  !.result = IF rollback_nodes(r) = <<>>
                                             THEN reserve_outcome(r.res, o.exc) ELSE @]]
    /\ UNCHANGED <<op, args, calls, result, build, deployment>>

\* one turn of the loop of _release_nodes in the except clause of run()
ReleaseStep ==
    /\ \E c \in Callers :
          /\ running[c].pc = "releasing"
          /\ LET r == running[c]
                 done == Tail(r.todo) = <<>>
             IN  \E o \in UnprovisionNode(nodes, Head(r.todo)) :
                    /\ nodes' = o.nodes
                    /\ running' = [running EXCEPT ![c] =
                          [r EXCEPT
                             !.calls = Append(@, Call("unprovision_node", Head(r.todo),
                                                      NoHostname, o)),
                             !.todo = Tail(@),
                             !.pc = IF done THEN "done" ELSE "releasing",
                             !.result = IF done THEN reserve_outcome(r.res, r.exc)
                                        ELSE @]]
    /\ UNCHANGED <<op, args, calls, result, build, deployment>>

\* ---------------------------------------------------------- image push
\* BuildahBuilder.push (image/builder/buildah.py): the push command, run
\* under tenacity.retry.
stop_after_attempt == 10

\* The destinations pushed to.
Destinations == {<<"base">>, <<"nova-api">>}

\* process.execute of the push command: it returns, or raises because the
\* command exited with an error or could not be started.
PushFailed == Exc("ProcessExecutionError", <<"push">>)
NotStartedError == Exc("OSError", <<"buildah">>)
Execute ==
    {[ok |-> TRUE, exc |-> NoExc]}
    \cup {[ok |-> FALSE, exc |-> e] : e \in {PushFailed, NotStartedError}}

RECURSIVE push_late(_, _, _)
\* Mutant: the retry stops once the attempt number has passed the limit.
push_late(destination, attempt, cs) ==
    UNION { LET cs1 == Append(cs, Call("push", NoNode, destination, o))
            IN  IF o.ok THEN {[calls |-> cs1, result |-> Ok(<<>>)]}
                ELSE IF attempt > stop_after_attempt
                THEN {[calls |-> cs1, result |-> Raised(o.exc)]}
                ELSE push_late(destination, attempt + 1, cs1)
            : o \in Execute }

RECURSIVE push(_, _, _)
\* BuildahBuilder.push under its decorator, from attempt number `attempt`
\* on: the command is run; when it raises, the retry stops if this was
\* attempt number stop_after_attempt and re-raises the exception
\* (reraise=True), else it waits and runs the command again.
push(destination, attempt, cs) ==
    UNION { LET cs1 == Append(cs, Call("push", NoNode, destination, o))
            IN  IF o.ok THEN {[calls |-> cs1, result |-> Ok(<<>>)]}
                ELSE IF attempt >= stop_after_attempt
                THEN {[calls |-> cs1, result |-> Raised(o.exc)]}
                ELSE push(destination, attempt + 1, cs1)
            : o \in Execute }

\* BuildahBuilder.push(destination)
BuildahBuilderPush ==
    /\ op = "idle"
    /\ \E destination \in Destinations :
          \E out \in push(destination, 1, <<>>) :
             /\ op' = "push"
             /\ args' = [destination |-> destination]
             /\ calls' = out.calls
             /\ result' = out.result
    /\ UNCHANGED <<running, build, deployment>>
    /\ UNCHANGED nodes

\* ----------------------------------------------------------- build all
\* BuildahBuilder.build_all (image/builder/buildah.py) over the dependencies
\* of the container images.  deps is a string (one container), a list (its
\* items are handed to the threads of an executor) or a dict (each key is a
\* container, its value the containers that depend on it).  A part of the
\* tree is [kind, name, items]; an item of a dict is an "entry", the key
\* with its value.
Leaf(name) == [kind |-> "str", name |-> name, items |-> <<>>]
List(items) == [kind |-> "list", name |-> "", items |-> items]
Dict(entries) == [kind |-> "dict", name |-> "", items |-> entries]
Entry(name, value) == [kind |-> "entry", name |-> name, items |-> <<value>>]

\* A part is known by its path from the root: the positions taken among the
\* items on the way down.
RECURSIVE Paths(_)
Paths(t) ==
    {<<>>} \cup UNION {{<<i>> \o p : p \in Paths(t.items[i])} : i \in 1..Len(t.items)}

RECURSIVE Sub(_, _)
Sub(t, p) == IF p = <<>> THEN t ELSE Sub(t.items[Head(p)], Tail(p))

\* The trees built: one container, a list of containers, a base with the
\* containers built on it, two levels of those next to a single container,
\* and a dict of two keys.
MaxLeaves == 2
LeafNames == <<"nova-api", "nova-compute", "nova-conductor", "nova-scheduler">>
Leaves(k) == [i \in 1..k |-> Leaf(LeafNames[i])]
Trees ==
    {Leaf("base")}
    \cup {List(Leaves(k)) : k \in 0..MaxLeaves}
    \cup {Dict(<<Entry("base", List(Leaves(k)))>>) : k \in 0..MaxLeaves}
    \cup {Dict(<<Entry("base",
                       List(<<Dict(<<Entry("nova-base", List(Leaves(k)))>>),
                              Leaf("cron")>>))>>) : k \in 1..MaxLeaves}
    \cup {Dict(<<Entry("base", Leaf("cron")), Entry("other", Dict(<<>>))>>)}
\* The images to skip (excludes).
ExcludeLists == {{}, {"base"}, {"nova-base"}, {LeafNames[1]}}

\* No build_all has been called.  pc tells where each part of the tree is:
\* "idle" (not reached), "ready" (build_all was called on it, or submitted to
\* the executor), "building" and "pushing" (in _generate_container), "inner"
\* (waiting for what is beneath it), "done" (returned), "raised".  started
\* holds the containers whose build has started, generated those whose
\* _generate_container has built (and pushed) them.
NotBuilding ==
    [deps |-> List(<<>>), excludes |-> {}, push_containers |-> FALSE,
     pc |-> [p \in {<<>>} |-> "idle"], started |-> {}, generated |-> {}]

set_pc(b, ps, v) ==
    [b EXCEPT !.pc = [q \in DOMAIN @ |-> IF q \in ps THEN v ELSE @[q]]]

\* after _generate_container(container): a string is complete, for the key
\* of a dict build_all is called on its value
descend(b, p) ==
    IF Sub(b.deps, p).kind = "entry"
    THEN set_pc(set_pc(b, {p}, "inner"), {p \o <<1>>}, "ready")
    ELSE set_pc(b, {p}, "done")

\* Mutant: build_all is called on the value of a key when the build of the
\* key starts.
start_build_eager(b, p) ==
    LET b1 == set_pc([b EXCEPT !.started = @ \cup {p}], {p}, "building")
    IN  IF Sub(b.deps, p).kind = "entry" THEN set_pc(b1, {p \o <<1>>}, "ready")
        ELSE b1

\* self.build(...) is called: the build command starts
start_build(b, p) ==
    set_pc([b EXCEPT !.started = @ \cup {p}], {p}, "building")

\* A new builder, and build_all() called on it.
BuilderStart ==
    /\ build.pc[<<>>] = "idle"
    /\ \E deps \in Trees, excludes \in ExcludeLists, push_containers \in BOOLEAN :
          build' = [deps |-> deps, excludes |-> excludes,
                    push_containers |-> push_containers,
                    pc |-> [p \in Paths(deps) |-> IF p = <<>> THEN "ready" ELSE "idle"],
                    started |-> {}, generated |-> {}]
    /\ UNCHANGED <<nodes, op, args, calls, result, running, deployment>>

\* build_all on a list: each item is submitted to the executor
SubmitList ==
    /\ \E p \in DOMAIN build.pc :
          /\ build.pc[p] = "ready"
          /\ Sub(build.deps, p).kind = "list"
          /\ build' = IF Sub(build.deps, p).items = <<>>
                      THEN set_pc(build, {p}, "done")
                      ELSE set_pc(set_pc(build, {p}, "inner"),
                                  {p \o <<i>> : i \in 1..Len(Sub(build.deps, p).items)},
                                  "ready")
    /\ UNCHANGED <<nodes, op, args, calls, result, running, deployment>>

\* build_all on a dict: the loop over its keys is entered
EnterDict ==
    /\ \E p \in DOMAIN build.pc :
          /\ build.pc[p] = "ready"
          /\ Sub(build.deps, p).kind = "dict"
          /\ build' = IF Sub(build.deps, p).items = <<>>
                      THEN set_pc(build, {p}, "done")
                      ELSE set_pc(set_pc(build, {p}, "inner"), {p \o <<1>>}, "ready")
    /\ UNCHANGED <<nodes, op, args, calls, result, running, deployment>>

\* _generate_container is called: an excluded container is skipped, for
\* another its build starts
GenerateContainer ==
    /\ \E p \in DOMAIN build.pc :
          /\ build.pc[p] = "ready"
          /\ Sub(build.deps, p).kind \in {"str", "entry"}
          /\ build' = IF Sub(build.deps, p).name \in build.excludes
                      THEN descend(build, p)
                      ELSE start_build(build, p)
    /\ UNCHANGED <<nodes, op, args, calls, result, running, deployment>>

\* the build command ends: it raises, or the push follows when enabled
BuildReturns ==
    /\ \E p \in DOMAIN build.pc :
          /\ build.pc[p] = "building"
          /\ \E o \in Execute :
                build' = IF ~o.ok THEN set_pc(build, {p}, "raised")
                         ELSE IF build.push_containers
                         THEN set_pc(build, {p}, "pushing")
                         ELSE descend([build EXCEPT !.generated = @ \cup {p}], p)
    /\ UNCHANGED <<nodes, op, args, calls, result, running, deployment>>

\* What push ends with, after its retries.
PushResults == {out.result : out \in push(<<"base">>, 1, <<>>)}

\* self.push(...) ends: it returns or raises
PushReturns ==
    /\ \E p \in DOMAIN build.pc :
          /\ build.pc[p] = "pushing"
          /\ \E r \in PushResults :
                build' = IF r.kind # "ok" THEN set_pc(build, {p}, "raised")
                         ELSE descend([build EXCEPT !.generated = @ \cup {p}], p)
    /\ UNCHANGED <<nodes, op, args, calls, result, running, deployment>>

\* build_all on the value of a key ends: the loop of the dict goes on with
\* what it returned or raised
ValueReturns ==
    /\ \E p \in DOMAIN build.pc :
          /\ build.pc[p] = "inner"
          /\ Sub(build.deps, p).kind = "entry"
          /\ build.pc[p \o <<1>>] \in {"done", "raised"}
          /\ build' = set_pc(build, {p}, build.pc[p \o <<1>>])
    /\ UNCHANGED <<nodes, op, args, calls, result, running, deployment>>

\* the loop of the dict: after a key and its value the next key, a raise
\* ends the loop
NextKey ==
    /\ \E p \in DOMAIN build.pc :
          /\ build.pc[p] = "inner"
          /\ Sub(build.deps, p).kind = "dict"
          /\ \E k \in 1..Len(Sub(build.deps, p).items) :
                /\ build.pc[p \o <<k>>] \in {"done", "raised"}
                /\ k < Len(Sub(build.deps, p).items) => build.pc[p \o <<k + 1>>] = "idle"
                /\ build' = IF build.pc[p \o <<k>>] = "raised"
                            THEN set_pc(build, {p}, "raised")
                            ELSE IF k = Len(Sub(build.deps, p).items)
                            THEN set_pc(build, {p}, "done")
                            ELSE set_pc(build, {p \o <<k + 1>>}, "ready")
    /\ UNCHANGED <<nodes, op, args, calls, result, running, deployment>>

\* the executor is left once every item has ended; SystemError is raised
\* when an item raised, or when futures.wait had timed out before all items
\* were done
JoinList ==
    /\ \E p \in DOMAIN build.pc :
          /\ build.pc[p] = "inner"
          /\ Sub(build.deps, p).kind = "list"
          /\ \A i \in 1..Len(Sub(build.deps, p).items) :
                build.pc[p \o <<i>>] \in {"done", "raised"}
          /\ \E timed_out \in BOOLEAN :
                build' = IF timed_out \/ \E i \in 1..Len(Sub(build.deps, p).items) :
                                             build.pc[p \o <<i>>] = "raised"
                         THEN set_pc(build, {p}, "raised")
                         ELSE set_pc(build, {p}, "done")
    /\ UNCHANGED <<nodes, op, args, calls, result, running, deployment>>

\* ------------------------------------------------------ heat deployment
\* OrchestrationDeployAction (actions/deployment.py): run() creates a
\* software deployment, polls the swift object the server signals to, cleans
\* up and reports.
MaxTimeout == 8
\* the seconds counted, and slept, per poll
poll_seconds == 3

\* What get_object returns as the body: nothing yet, or the signal of the
\* server with its deploy_status_code.
NoBody == ""
Bodies == {NoBody, "signal 0", "signal 1"}

\* json.loads(body)['deploy_status_code']
deploy_status_code(body) == IF body = "signal 0" THEN 0 ELSE 1

\* No run() yet.  pc is where run() stands; count_check and body are the
\* locals of _wait_for_data, polls the bodies get_object has returned.
NotDeploying ==
    [pc |-> "idle", timeout |-> 0, count_check |-> 0, body |-> NoBody,
     polls |-> <<>>, result |-> [data |-> "-", error |-> "-"]]

\* Mutant: the loop gives up when count_check has reached the timeout.
timed_out_early(count_check, timeout) == count_check >= timeout

\* count_check > self.timeout
timed_out(count_check, timeout) == count_check > timeout

\* the Result run() returns for the body _wait_for_data returned
deploy_result(body) ==
    IF body = NoBody
    THEN [data |-> "{}", error |-> "Timeout for heat deployment"]
    ELSE [data |-> body,
          error |-> IF deploy_status_code(body) # 0
                    THEN "Heat deployment failed" ELSE "None"]

\* run() up to the call of _wait_for_data: the temp URL, the config and the
\* deployment are created (or one of the calls raises), the loop is entered
StartDeployment ==
    /\ deployment.pc = "idle"
    /\ \E timeout \in 0..MaxTimeout, created \in BOOLEAN :
          deployment' = [NotDeploying EXCEPT
                            !.pc = IF created THEN "polling" ELSE "raised",
                            !.timeout = timeout]
    /\ UNCHANGED <<nodes, op, args, calls, result, running, build>>

\* one turn of the loop of _wait_for_data up to the sleep
Poll ==
    /\ deployment.pc = "polling"
    /\ \E body \in Bodies :
          LET count_check == deployment.count_check + poll_seconds
          IN  deployment' = [deployment EXCEPT
                  !.body = body,
                  !.polls = Append(@, body),
                  !.count_check = count_check,
                  !.pc = IF body # NoBody \/ timed_out(count_check, deployment.timeout)
                         THEN "returned" ELSE "sleeping"]
    /\ UNCHANGED <<nodes, op, args, calls, result, running, build>>

\* time.sleep(3) returns; the body is empty, the loop goes on
Sleep ==
    /\ deployment.pc = "sleeping"
    /\ deployment' = [deployment EXCEPT !.pc = "polling"]
    /\ UNCHANGED <<nodes, op, args, calls, result, running, build>>

\* run() after _wait_for_data: the cleanup, whose failure is logged, and the
\* Result
ReportDeployment ==
    /\ deployment.pc = "returned"
    /\ deployment' = [deployment EXCEPT !.pc = "done",
                                        !.result = deploy_result(deployment.body)]
    /\ UNCHANGED <<nodes, op, args, calls, result, running, build>>

\* The caller takes the result; the next action can be run.
Return ==
    /\ op # "idle"
    /\ op' = "idle"
    /\ args' = <<>>
    /\ calls' = <<>>
    /\ result' = NoResult
    /\ UNCHANGED <<running, build, deployment>>
    /\ UNCHANGED nodes

Init ==
    /\ nodes = [n \in Nodes |-> FreeNode]
    /\ op = "idle"
    /\ args = <<>>
    /\ calls = <<>>
    /\ result = NoResult
    /\ running = [c \in Callers |-> NotStarted]
    /\ build = NotBuilding
    /\ deployment = NotDeploying

Next ==
    \/ CheckExistingInstancesAction
    \/ ReserveNodesAction
    \/ DeployNodeAction
    \/ WaitForDeploymentAction
    \/ UndeployInstanceAction
    \/ ExternalDeploy
    \/ Return

Spec == Init /\ [][Next]_vars

\* The role expander on its own: it makes no backend call.
NextExpand ==
    \/ ExpandRolesAction
    \/ Return

SpecExpand == Init /\ [][NextExpand]_vars

\* Reservation for instances with profiles and capabilities.
NextProfile ==
    \/ ReserveProfiledNodes
    \/ Return

SpecProfile == Init /\ [][NextProfile]_vars

\* Reserve calls side by side.
NextConcurrent ==
    \/ StartReserve
    \/ ReserveStep
    \/ ReleaseStep

SpecConcurrent == Init /\ [][NextConcurrent]_vars

\* The push of an image.
NextPush ==
    \/ BuildahBuilderPush
    \/ Return

SpecPush == Init /\ [][NextPush]_vars

\* The build of a tree of images by the threads of build_all.
NextBuild ==
    \/ BuilderStart
    \/ SubmitList
    \/ EnterDict
    \/ GenerateContainer
    \/ BuildReturns
    \/ PushReturns
    \/ ValueReturns
    \/ NextKey
    \/ JoinList

SpecBuild == Init /\ [][NextBuild]_vars

\* A heat deployment; the thread that runs it keeps running.
NextDeployment ==
    \/ StartDeployment
    \/ Poll
    \/ Sleep
    \/ ReportDeployment

SpecDeployment ==
    /\ Init
    /\ [][NextDeployment]_vars
    /\ WF_vars(Poll) /\ WF_vars(Sleep) /\ WF_vars(ReportDeployment)

\* ================================================================ claims
\* The positions in the call log of the calls to c, those that raised and
\* those that returned.
Idx(c) == {i \in 1..Len(calls) : calls[i].call = c}
Failed(c) == {i \in Idx(c) : ~calls[i].ok}
Succeeded(c) == {i \in Idx(c) : calls[i].ok}
\* The nodes the backend handed out during this reserve call.
ReservedInCall == {calls[i].node : i \in Succeeded("reserve_node")}
\* The positions of the release calls issued for node n.
Releases(n) == {i \in Idx("unprovision_node") : calls[i].node = n}

\* C1: when the backend's reserve call raises at position k of the batch,
\* reserve returns an error, the calls before it are the k-1 reservations,
\* the calls after it are releases only, and each node reserved in this call
\* is released by exactly one call, no other node by any.
C1_RollbackReleasesEachReservedNodeOnce ==
    (op = "reserve" /\ Failed("reserve_node") # {}) =>
        /\ result.kind = "error"
        /\ \A k \in Failed("reserve_node") :
             /\ \A i \in 1..(k - 1) : calls[i].call = "reserve_node" /\ calls[i].ok
             /\ \A i \in (k + 1)..Len(calls) : calls[i].call = "unprovision_node"
        /\ \A n \in Nodes :
             Cardinality(Releases(n)) = IF n \in ReservedInCall THEN 1 ELSE 0

\* C1 witness: the third reservation of a batch raised and the two nodes
\* reserved before it were released.
C1_Witness ==
    /\ op = "reserve"
    /\ Len(calls) = 5
    /\ 3 \in Failed("reserve_node")
    /\ result.kind = "error"

\* C2 as stated: after reserve returned an error no node reserved during the
\* call is still reserved, whatever the backend did during the rollback.
C2_NoNodeLeaked ==
    (op = "reserve" /\ result.kind # "ok") =>
        \A n \in ReservedInCall : nodes[n].state # "reserved"

\* C2 amended: after reserve returned an error, a node reserved during the
\* call is back in the pool when its release call returned, and is still
\* reserved exactly when its release call raised; so none is left when no
\* release raises.
C2_LeakedOnlyByFailedRelease ==
    (op = "reserve" /\ result.kind = "error") =>
        \A n \in ReservedInCall :
            /\ Releases(n) # {}
            /\ IF \E i \in Releases(n) : calls[i].ok
               THEN nodes[n] = FreeNode
               ELSE nodes[n].state = "reserved"

\* C2 witness: reserve failed after reserving two nodes, both were released
\* and are available again.
C2_Witness ==
    /\ op = "reserve"
    /\ result.kind = "error"
    /\ Cardinality(ReservedInCall) = 2
    /\ \A n \in ReservedInCall : nodes[n] = FreeNode

\* The error that made reserve or deploy clean up.
TriggeringError ==
    IF op = "reserve" THEN ReservationFailed
    ELSE IF Failed("provision_node") # {} THEN ProvisioningFailed
    ELSE KeyErrorHostname

\* The nodes reserve or deploy has to release when it fails.
ToRelease == IF op = "reserve" THEN ReservedInCall ELSE {args.node}

\* C3: when a release call raises during the rollback of reserve or the
\* cleanup of deploy, a release is still issued for every node to release and
\* the call returns the error that triggered the cleanup, not the release's.
C3_ReleaseFailureSwallowed ==
    (op \in {"reserve", "deploy"} /\ Failed("unprovision_node") # {}) =>
        /\ result = Err(FormatExc(TriggeringError))
        /\ \A n \in ToRelease : Releases(n) # {}

\* C3 witness: in a rollback of two nodes the first release raised and the
\* second was still issued.
C3_Witness ==
    /\ op = "reserve"
    /\ Len(calls) = 5
    /\ 4 \in Failed("unprovision_node")
    /\ 5 \in Idx("unprovision_node")
    /\ result = Err(FormatExc(ReservationFailed))

\* Whether the validator rejects the specification the action was given
\* (undeploy is given an identifier only).
InputInvalid ==
    CASE op \in {"check", "reserve"} -> validate_instances(args.instances) # NoExc
      [] op \in {"deploy", "wait"} -> validate_instances(<<args.instance>>) # NoExc
      [] OTHER -> FALSE

\* What the validator says about the specification the action was given.
InputError ==
    IF op \in {"check", "reserve"} THEN validate_instances(args.instances)
    ELSE validate_instances(<<args.instance>>)

C5_FailedProvisionReleasesNodeOnce ==
    (op = "deploy" /\ Failed("provision_node") # {}) =>
        /\ Cardinality(Releases(args.node)) = 1
        /\ Cardinality(Idx("unprovision_node")) = 1
        /\ result = Err(FormatExc(ProvisioningFailed))

\* C5 witness: the provision request raised, the node was released and is
\* available again.
C5_Witness ==
    /\ op = "deploy"
    /\ Failed("provision_node") # {}
    /\ Succeeded("unprovision_node") # {}
    /\ nodes[args.node] = FreeNode

\* C6 as stated: every deploy that does not return an instance record has
\* issued a release for its node.
C6_FailedDeployReleasesNode ==
    (op = "deploy" /\ result.kind # "ok") => Releases(args.node) # {}

\* C7: awaitDeployment issues no release call; when the backend wait raises,
\* it returns the error of the wait and the backend's nodes are as before.
C7_AwaitLeavesNodeUntouched ==
    [][op' = "wait" =>
         /\ \A i \in 1..Len(calls') : calls'[i].call # "unprovision_node"
         /\ (\E i \in 1..Len(calls') :
                calls'[i].call = "wait_for_provisioning" /\ ~calls'[i].ok)
            => (result' = Err(FormatExc(DeploymentTimeout)) /\ nodes' = nodes)]_vars

\* C7 witness: the wait for a node under deployment raised, an error was
\* returned and the node is still under deployment.
C7_Witness ==
    /\ op = "wait"
    /\ Failed("wait_for_provisioning") # {}
    /\ result.kind = "error"
    /\ nodes[args.instance.uuid].state = "deploying"

\* C8: when the lookup of undeploy is answered not-found, undeploy returns
\* without error, issues no unprovision call and leaves the backend as it
\* was; and once undeploy has torn an instance down, a further lookup of the
\* same identifier no longer resolves to that node.
C8_UndeployOfMissingInstanceIsNoop ==
    [][op' = "undeploy" =>
         /\ calls'[1].exc \in NotFoundErrors
            => /\ result' = Ok(<<>>)
               /\ Len(calls') = 1
               /\ nodes' = nodes
         /\ (Len(calls') = 2 /\ calls'[2].ok)
            => \A o \in ShowInstance(nodes', args'.instance) :
                  o.ok => o.instance.node # calls'[2].node]_vars

\* C8 witness: undeploy of an instance the backend does not know returned
\* without error after the lookup alone.
C8_Witness ==
    /\ op = "undeploy"
    /\ Len(calls) = 1
    /\ calls[1].exc \in NotFoundErrors
    /\ result = Ok(<<>>)

CheckRequests == SelectSeq(args.instances, LAMBDA r : r.hostname # NoHostname)
Shows == SelectSeq(calls, LAMBDA c : c.call = "show_instance")
Looked == [i \in 1..Len(Shows) |-> [request |-> CheckRequests[i], show |-> Shows[i]]]
Answered(ok) == SelectSeq(Looked, LAMBDA x : x.show.ok = ok)

\* C10: in a successful checkExisting result each request with a hostname
\* was looked up once, in input order; not_found holds, in input order, the
\* requests answered not-found, found the instances resolved for the others,
\* in input order; and a not-found answer is never what ends the call with
\* an error.
C10_FoundAndNotFoundPartitionRequests ==
    /\ (op = "check" /\ result.kind = "ok") =>
          /\ Len(Shows) = Len(CheckRequests)
          /\ \A i \in 1..Len(Shows) :
                /\ Shows[i].host = CheckRequests[i].hostname
                /\ ~Shows[i].ok => Shows[i].exc \in NotFoundErrors
          /\ result.value.not_found =
                [i \in 1..Len(Answered(FALSE)) |-> Answered(FALSE)[i].request]
          /\ result.value.instances =
                [i \in 1..Len(Answered(TRUE)) |->
                    [uuid |-> Answered(TRUE)[i].show.node,
                     hostname |-> nodes[Answered(TRUE)[i].show.node].hostname]]
    /\ (op = "check" /\ result.kind # "ok") =>
          \A i \in Idx("show_instance") :
             calls[i].exc \in NotFoundErrors => i < Len(calls)

\* C10 witness: a successful check of two hostnames, one found and one not.
C10_Witness ==
    /\ op = "check"
    /\ result.kind = "ok"
    /\ Len(result.value.not_found) = 1
    /\ Len(result.value.instances) = 1

\* Whether a deployed node answers to the identifier looked up by call i.
Resolvable(i) == \E o \in ShowInstance(nodes, calls[i].host) : o.ok

\* C11: in checkExisting, a hostname lookup the backend fails for another
\* reason than not-found (another exception than the two not-found ones, or
\* one of them although an instance answers to the hostname) ends the call
\* with an error; that lookup is the last backend call, so the request is in
\* no not_found list and no later instance is queried.
C11_OtherLookupErrorAbortsCheck ==
    op = "check" =>
        \A i \in Failed("show_instance") :
            (calls[i].exc \notin NotFoundErrors \/ Resolvable(i))
            => /\ result.kind = "error"
               /\ i = Len(calls)

\* C12: a successful checkExisting result accounts for every input instance;
\* the result has the two lists found and not_found and nothing else, so the
\* two lists together are as long as the input.
C12_EveryRequestAccountedFor ==
    (op = "check" /\ result.kind = "ok") =>
        Len(result.value.instances) + Len(result.value.not_found)
            = Len(args.instances)

\* C13: an operation in which a backend call raised still ends by returning
\* a success payload or an error result; the exception does not leave run().
C13_NoBackendFailureEscapes ==
    (op # "idle" /\ \E i \in 1..Len(calls) : ~calls[i].ok)
        => result.kind \in {"ok", "error"}

\* expandRoles: the roles as its first loop leaves them, the number of
\* instances role k stands for, the number of instances before role k in the
\* flat list, and what the expansion has built once role k is done.
Prepared == prepare(args.roles)
Size(k) ==
    IF Prepared[k].has_instances THEN Len(Prepared[k].instances)
    ELSE IF Prepared[k].has_count THEN Prepared[k].count ELSE 1
RECURSIVE Offset(_)
Offset(k) == IF k = 1 THEN 0 ELSE Offset(k - 1) + Size(k - 1)
After(k) == expand_roles(SubSeq(Prepared, 1, k), 1, args.stackname, NoExpansion)
\* The hostname '<stackName>-<alias>-<i>' of a role.
Numbered(role_name, i) ==
    args.stackname
    \o <<"-", IF role_name = "Compute" THEN "novacompute" ELSE lower(role_name), "-">>
    \o str(i)

Listed ==
    UNION {{<<k, j>> : j \in 1..Len(args.roles[k].instances)}
           : k \in {r \in 1..Len(args.roles) : args.roles[r].has_instances}}
Written(p) == args.roles[p[1]].instances[p[2]]
Generated(p) ==
    build_hostname(hostname_format(args.roles[p[1]].hostname_format,
                                   args.roles[p[1]].name),
                   p[2] - 1, args.stackname)
Final(p) == result.value.instances[Offset(p[1]) + p[2]].hostname

\* C15 as stated: the hostname returned for a listed instance is its name if
\* it has one, else its own hostname if it has one, else the generated one.
C15_NameBeforeHostname ==
    (op = "expand" /\ result.kind = "ok") =>
        \A p \in Listed :
            Final(p) = IF Written(p).name # NoName THEN Written(p).name
                       ELSE IF Written(p).hostname # NoHostname
                       THEN Written(p).hostname
                       ELSE Generated(p)

\* C15 amended: the hostname returned for a listed instance is its own
\* hostname if it has one, else its name if it has one, else the hostname
\* generated from the role's format at the instance's position.
C15_HostnameBeforeName ==
    (op = "expand" /\ result.kind = "ok") =>
        \A p \in Listed :
            Final(p) = IF Written(p).hostname # NoHostname THEN Written(p).hostname
                       ELSE IF Written(p).name # NoName THEN Written(p).name
                       ELSE Generated(p)

\* C15 witness: an instance listed with both a name and a hostname was
\* returned with its hostname.
C15_Witness ==
    /\ op = "expand"
    /\ result.kind = "ok"
    /\ \E p \in Listed :
          /\ Written(p).name = <<"bm0">>
          /\ Written(p).hostname = <<"foo">>
          /\ Final(p) = <<"foo">>

\* C16: in the hostname map expandRoles returns, the hostname generated for
\* the place of each listed instance is a key, and its value is the hostname
\* returned for that instance.
C16_MapHoldsEveryListedInstance ==
    (op = "expand" /\ result.kind = "ok") =>
        \A p \in Listed :
            /\ Generated(p) \in DOMAIN result.value.environment.HostnameMap
            /\ result.value.environment.HostnameMap[Generated(p)] = Final(p)

\* What the roles expand to, whether or not the validation lets expandRoles
\* get that far, and the hostnames two of these instances share.
Expansion == expand_roles(Prepared, 1, args.stackname, NoExpansion).instances
SharedHostnames ==
    LET e == Expansion
    IN  {e[i].hostname : i \in {x \in 1..Len(e) :
            \E y \in 1..Len(e) : x # y /\ e[x].hostname = e[y].hostname}}
\* Whether a sequence of strings has no string twice, the empty one aside.
Distinct(seq) ==
    \A i, j \in 1..Len(seq) : (i # j /\ seq[i] # <<>>) => seq[i] # seq[j]
\* Another violation than a shared hostname: a role against the rules of
\* the role validation, an image that does not resolve, a node name taken
\* by two instances.
OtherViolation ==
    \/ \E k \in 1..Len(args.roles) :
          \/ args.roles[k].has_count /\ args.roles[k].has_instances
          \/ args.roles[k].defaults.hostname # NoHostname
          \/ args.roles[k].defaults.name # NoName
    \/ LET e == Expansion
       IN  \/ \E i \in 1..Len(e) : ~get_source(e[i]).ok
           \/ ~Distinct([i \in 1..Len(e) |-> e[i].name])
HostnameError(h) == Err(<<"Hostname is used more than once">> \o h)

\* C17 as stated: a successful expandRoles returns pairwise distinct
\* hostnames and pairwise distinct node names, and roles whose expansion
\* makes two instances share a hostname get the error naming that hostname.
C17_SharedHostnameIsNamed ==
    op = "expand" =>
        /\ result.kind = "ok" =>
              /\ Distinct([i \in 1..Len(result.value.instances)
                              |-> result.value.instances[i].hostname])
              /\ Distinct([i \in 1..Len(result.value.instances)
                              |-> result.value.instances[i].name])
        /\ LET shared == SharedHostnames
           IN  shared # {} => \E h \in shared : result = HostnameError(h)

\* C17 amended: a successful expandRoles returns pairwise distinct hostnames
\* and pairwise distinct node names; roles whose expansion makes two
\* instances share a hostname get an error and no instance list; when the
\* error is the one about a hostname it names a shared one, and it is that
\* error whenever the roles have no other violation.
C17_SharedHostnameIsRejected ==
    op = "expand" =>
        /\ result.kind = "ok" =>
              /\ Distinct([i \in 1..Len(result.value.instances)
                              |-> result.value.instances[i].hostname])
              /\ Distinct([i \in 1..Len(result.value.instances)
                              |-> result.value.instances[i].name])
        /\ LET shared == SharedHostnames
           IN  shared # {} =>
                 /\ result.kind = "error"
                 /\ result.value = <<>>
                 /\ result.error[1] = "Hostname is used more than once"
                       => \E h \in shared : result = HostnameError(h)
                 /\ ~OtherViolation
                       => \E h \in shared : result = HostnameError(h)

\* C17 witness: two roles, each valid on its own, expanded to the same
\* hostname, and expandRoles returned the error naming it.
C17_Witness ==
    /\ op = "expand"
    /\ Len(args.roles) = 2
    /\ validate_roles(Prepared) = NoExc
    /\ \E h \in SharedHostnames : result = HostnameError(h)

\* C18: roles of which one sets both count and instances, whatever their
\* values, do not pass the role validation, and expandRoles returns an error
\* and no instance.
C18_CountWithInstancesIsRejected ==
    (/\ op = "expand"
     /\ \E k \in 1..Len(args.roles) :
           args.roles[k].has_count /\ args.roles[k].has_instances)
    => /\ validate_roles(Prepared) # NoExc
       /\ result.kind = "error"
       /\ result.value = <<>>

\* C18 witness: a role with count 0 and an empty list of instances was
\* rejected for giving both.
C18_Witness ==
    /\ op = "expand"
    /\ \E k \in 1..Len(args.roles) :
          /\ args.roles[k].has_count /\ args.roles[k].count = 0
          /\ args.roles[k].has_instances /\ args.roles[k].instances = <<>>
    /\ result = Err(<<"Count and instances cannot be provided together">>)

\* The reserve_node calls of a reserve, in order; call i is the one made for
\* instance i of the batch.
ReserveCalls == SelectSeq(calls, LAMBDA c : c.call = "reserve_node")
\* The value a dict of items holds for key.
Values(d, key) == {kv[2] : kv \in {x \in d : x[1] = key}}

\* C20: in reserve, the capabilities sent to the backend for an instance
\* that sets profile hold a profile entry, and for an instance whose
\* capabilities specify profile themselves that entry is the one of the
\* capabilities.
C20_CapabilitiesProfileWins ==
    op = "reserve" =>
        \A i \in 1..Len(ReserveCalls) :
            LET instance == args.instances[i]
                sent == ReserveCalls[i].capabilities
            IN  /\ instance.profile # NoProfile
                     => sent.given /\ Values(sent.items, "profile") # {}
                /\ Values(instance.capabilities.items, "profile") # {}
                     => Values(sent.items, "profile")
                          = Values(instance.capabilities.items, "profile")

\* The (node, instance) pairs a caller holds: those of the successful result
\* of its reserve call, and while the call is in its loop those it has
\* appended to its result list.
Held(c) ==
    IF running[c].result.kind = "ok" THEN running[c].result.value.reservations
    ELSE IF running[c].pc = "reserving" THEN running[c].res
    ELSE <<>>

\* C19: whatever the order in which the backend serves the reserve calls
\* that run side by side, no node is paired with two instances: not twice in
\* one successful result, not in the results of two calls.
C19_NoNodeAssignedTwice ==
    /\ \A c \in Callers :
          \A i, j \in 1..Len(Held(c)) :
              i # j => Held(c)[i].node # Held(c)[j].node
    /\ \A c, d \in Callers :
          c # d => \A i \in 1..Len(Held(c)), j \in 1..Len(Held(d)) :
                      Held(c)[i].node # Held(d)[j].node

\* C19 witness: one call has returned a reservation while the other, with
\* a node reserved, is still in its loop.
C19_Witness ==
    \E c, d \in Callers :
        /\ running[c].result.kind = "ok"
        /\ Len(running[c].result.value.reservations) >= 1
        /\ running[d].pc = "reserving"
        /\ Len(running[d].res) >= 1

\* C21: reserve leaves every field of every instance passed to it as it
\* was, whether it succeeds or fails (checkExisting and deploy only read
\* the instances they are given).
C21_ReserveLeavesInstancesUnchanged ==
    op = "reserve" => args.left = args.instances

\* How far a node is in the lifecycle of the instance on it.
Rank(state) ==
    CASE state = "reserved" -> 1
      [] state = "deploying" -> 2
      [] state = "active" -> 3
      [] OTHER -> 0

\* C22: in every run of an operation, a provision request comes from deploy
\* only, for the node deploy was given; a deploy that returns the instance
\* record has not waited, the backend has the instance under deployment, not
\* active; a node turns active only in awaitDeployment, from a deployment
\* that deploy's provision request started, and awaitDeployment returns a
\* record only for an active instance; a node goes under deployment only in
\* deploy; and no run takes a node back from active to under deployment or
\* from either to reserved (a release returns it to the pool).
C22_LifecycleMovesForward ==
    [][(op = "idle" /\ op' # "idle") =>
         /\ \A i \in 1..Len(calls') :
               calls'[i].call = "provision_node"
               => (op' = "deploy" /\ calls'[i].node = args'.node)
         /\ (op' = "deploy" /\ result'.kind = "ok") =>
               /\ \A i \in 1..Len(calls') : calls'[i].call # "wait_for_provisioning"
               /\ nodes[args'.node].state \in {"available", "reserved"}
               /\ nodes'[args'.node].state = "deploying"
               /\ result'.value.uuid = args'.node
         /\ (op' = "wait" /\ result'.kind = "ok") =>
               /\ Deployed(nodes, args'.instance.uuid)
               /\ nodes'[args'.instance.uuid].state = "active"
         /\ \A n \in Nodes :
               /\ (nodes'[n].state = "active" /\ nodes[n].state # "active")
                  => /\ op' = "wait"
                     /\ args'.instance.uuid = n
                     /\ nodes[n].state = "deploying"
               /\ (nodes'[n].state = "deploying" /\ nodes[n].state # "deploying")
                  => /\ op' = "deploy"
                     /\ args'.node = n
               /\ nodes'[n].state # "available"
                  => Rank(nodes'[n].state) >= Rank(nodes[n].state)]_vars

\* C22 witness: awaitDeployment returned the record of an instance that
\* deploy had put on its node (it carries the hostname deploy gave it) and
\* that the backend now reports active.
C22_Witness ==
    /\ op = "wait"
    /\ result.kind = "ok"
    /\ nodes[args.instance.uuid] = [state |-> "active", hostname |-> <<"a">>]
    /\ result.value.hostname = <<"a">>

\* The nodes a reserve call has been handed by the backend, the nodes it
\* has issued a release for, and the nodes it still holds.
ReservedBy(c) == {running[c].reserved[i] : i \in 1..Len(running[c].reserved)}
ReleasedBy(c) ==
    {running[c].calls[i].node
     : i \in {j \in 1..Len(running[c].calls) :
                running[c].calls[j].call = "unprovision_node"}}
HeldBy(c) == ReservedBy(c) \ ReleasedBy(c)
\* The release call a step adds to the calls of c, if it adds one.
Releasing(c, n) ==
    /\ Len(running'[c].calls) = Len(running[c].calls) + 1
    /\ running'[c].calls[Len(running'[c].calls)].call = "unprovision_node"
    /\ running'[c].calls[Len(running'[c].calls)].node = n

\* C23: when reserve calls run side by side, under every interleaving a
\* call releases only nodes the backend handed to that same call, each at
\* most once, never a node another call holds, and the release leaves the
\* other call as it was; so the nodes of a call that returned its
\* reservations all stay reserved, and a call that failed has issued a
\* release for every node it had reserved.
C23_RollbackReleasesOwnNodesOnly ==
    /\ [](\A c \in Callers :
            /\ ReleasedBy(c) \subseteq ReservedBy(c)
            /\ running[c].result.kind = "ok"
                 => /\ ReleasedBy(c) = {}
                    /\ \A n \in ReservedBy(c) : nodes[n].state = "reserved"
            /\ running[c].result.kind = "error" => HeldBy(c) = {})
    /\ [][\A c \in Callers, n \in Nodes :
            Releasing(c, n)
            => /\ n \in HeldBy(c)
               /\ \A d \in Callers \ {c} :
                     /\ n \notin HeldBy(d)
                     /\ running'[d] = running[d]]_vars

\* C23 witness: one call failed and released the node it had reserved while
\* the other call returned a reservation, whose node is still reserved.
C23_Witness ==
    \E c, d \in Callers :
        /\ c # d
        /\ running[c].result.kind = "error"
        /\ \E n \in ReleasedBy(c) : nodes[n].state = "available"
        /\ running[d].result.kind = "ok"
        /\ \E n \in ReservedBy(d) : nodes[n].state = "reserved"

\* A batch with an image that does not resolve, with a hostname given twice.
HasBadImage(instances) == \E i \in 1..Len(instances) : ~get_source(instances[i]).ok
HasSharedHostname(instances) ==
    ~Distinct([i \in 1..Len(instances) |-> instances[i].hostname])
HasSharedName(instances) ==
    ~Distinct([i \in 1..Len(instances) |-> instances[i].name])

\* C24: the validation of a batch checks the image of every instance before
\* the uniqueness of the hostnames, and that before the uniqueness of the
\* names: a batch with an image that does not resolve is answered with the
\* image error wherever the instance sits, and a batch of resolvable images
\* with a hostname given twice with the hostname error.
C24_ImageErrorReportedFirst ==
    op \in {"check", "reserve"} =>
        /\ HasBadImage(args.instances)
              => result = Err(<<"image">>)
        /\ (~HasBadImage(args.instances) /\ HasSharedHostname(args.instances))
              => /\ result.kind = "error"
                 /\ result.error[1] = "Hostname is used more than once"

\* C25: when undeploy returns without error, either its lookup was answered
\* not-found or it issued an unprovision call for the node of the instance
\* and that call returned; a lookup that fails in another way does not end
\* in a success while an instance still answers to the identifier.
C25_UndeploySucceedsOnlyWhenGone ==
    (op = "undeploy" /\ result.kind = "ok") =>
        /\ \/ calls[1].exc \in NotFoundErrors
           \/ /\ Len(calls) = 2
              /\ calls[1].ok
              /\ calls[2].call = "unprovision_node"
              /\ calls[2].node = calls[1].node
              /\ calls[2].ok
        /\ (~calls[1].ok /\ calls[1].exc \notin NotFoundErrors) => ~Resolvable(1)

\* C26: a call of push runs the push command at most 10 times, each time
\* for the destination it was given; every run but the last one raised, so
\* nothing is run after the first run that returns and a failed run is
\* followed by another until the tenth; push returns when the last run
\* returned, and when all 10 runs raised it raises the exception of the
\* tenth.
C26_PushRetriedUpToTenTimes ==
    op = "push" =>
        /\ Len(calls) \in 1..10
        /\ \A i \in 1..Len(calls) :
              /\ calls[i].call = "push"
              /\ calls[i].host = args.destination
              /\ i < Len(calls) => ~calls[i].ok
        /\ calls[Len(calls)].ok <=> result = Ok(<<>>)
        /\ ~calls[Len(calls)].ok =>
              /\ Len(calls) = 10
              /\ result.kind = "raised"
              /\ result.error[1] = calls[10].exc

\* C26 witness: ten runs of the push command raised, the first one another
\* exception than the last, and push raised the last one.
C26_Witness ==
    /\ op = "push"
    /\ Len(calls) = 10
    /\ calls[1].exc = "OSError"
    /\ calls[10].exc = "ProcessExecutionError"
    /\ result = Raised(PushFailed)

\* build_all: the containers of the tree (strings and keys), whether a part
\* lies beneath another, the part two parts branch off from, and the
\* containers whose build or push is running.
ContainerParts ==
    {p \in DOMAIN build.pc : Sub(build.deps, p).kind \in {"str", "entry"}}
Beneath(q, p) == Len(q) > Len(p) /\ SubSeq(q, 1, Len(p)) = p
RECURSIVE Fork(_, _)
Fork(p, q) ==
    IF p = <<>> \/ q = <<>> \/ Head(p) # Head(q) THEN <<>>
    ELSE <<Head(p)>> \o Fork(Tail(p), Tail(q))
InGeneration == {p \in ContainerParts : build.pc[p] \in {"building", "pushing"}}

\* C27 as stated: two containers are built at the same time only as (parts
\* of) different items of one list, and the build of a container nested
\* beneath another has started only when the build (and the push, when
\* enabled) of that one has completed successfully.
C27_ParentBuiltBeforeNested ==
    /\ \A p, q \in InGeneration :
          p # q => Sub(build.deps, Fork(p, q)).kind = "list"
    /\ \A p \in ContainerParts, q \in build.started :
          Beneath(q, p) => p \in build.generated

\* C27 amended: two containers are built at the same time only as (parts
\* of) different items of one list; the build of a container nested beneath
\* another has started only when the build (and the push, when enabled) of
\* that one has completed successfully, unless that one is among the
\* excluded images: an excluded container is never built nor pushed, and the
\* containers beneath it are built all the same.
C27_ParentBuiltOrExcludedBeforeNested ==
    /\ \A p, q \in InGeneration :
          p # q => Sub(build.deps, Fork(p, q)).kind = "list"
    /\ \A p \in ContainerParts :
          IF Sub(build.deps, p).name \in build.excludes
          THEN p \notin build.started /\ p \notin build.generated
          ELSE /\ p \in build.generated
                  => /\ p \in build.started
                     /\ build.pc[p] \notin {"building", "pushing"}
               /\ \A q \in build.started : Beneath(q, p) => p \in build.generated

\* C27 witness: the base is built and pushed, and two of the containers
\* listed beneath it are being built at the same time.
C27_Witness ==
    /\ build.push_containers
    /\ \E p \in build.generated :
          /\ Sub(build.deps, p).kind = "entry"
          /\ \E q, r \in InGeneration :
                q # r /\ Beneath(q, p) /\ Beneath(r, p)

\* C28: the hostname map of a successful expandRoles has one entry per
\* returned instance: as many keys as there are instances, and the hostnames
\* of the instances as its values.
C28_MapHasOneEntryPerInstance ==
    (op = "expand" /\ result.kind = "ok") =>
        LET map == result.value.environment.HostnameMap
            instances == result.value.instances
        IN  /\ Cardinality(DOMAIN map) = Len(instances)
            /\ {map[k] : k \in DOMAIN map}
                  = {instances[i].hostname : i \in 1..Len(instances)}

\* The number of polls of a deployment, and whether the bodies of all polls
\* before poll n were empty.
NumPolls == Len(deployment.polls)
EmptyBefore(n) == \A i \in 1..(n - 1) : deployment.polls[i] = NoBody

\* C29: _wait_for_data ends for every timeout (from 0 on): it polls at most
\* floor(timeout/3)+1 times; it returns a non-empty body at the first poll
\* that yields one; it returns an empty body after floor(timeout/3)+1 empty
\* polls, the first poll at which 3 times the number of polls exceeds the
\* timeout; and run reports the timeout error exactly when that body is
\* empty.
C29_WaitForDataTerminates ==
    /\ [](/\ NumPolls <= (deployment.timeout \div 3) + 1
          /\ deployment.count_check = 3 * NumPolls
          /\ deployment.pc \in {"returned", "done"} =>
                /\ NumPolls >= 1
                /\ deployment.body = deployment.polls[NumPolls]
                /\ EmptyBefore(NumPolls)
                /\ deployment.body = NoBody =>
                      /\ NumPolls = (deployment.timeout \div 3) + 1
                      /\ 3 * NumPolls > deployment.timeout
                      /\ 3 * (NumPolls - 1) <= deployment.timeout
          /\ deployment.pc = "done" =>
                (deployment.result.error = "Timeout for heat deployment"
                 <=> deployment.body = NoBody))
    /\ (deployment.pc = "polling" ~> deployment.pc = "done")

\* C29 witness: with a timeout of 6 seconds three polls came back empty and
\* run reported the timeout.
C29_Witness ==
    /\ deployment.pc = "done"
    /\ deployment.timeout = 6
    /\ deployment.polls = <<NoBody, NoBody, NoBody>>
    /\ deployment.result = [data |-> "{}", error |-> "Timeout for heat deployment"]

====
